---- MODULE Spec2Model ----
(***************************************************************************)
(* A model of lib/osv/models.py: the Bug entity, its affected ranges and   *)
(* events, the conversion between the flattened-event schema and the       *)
(* pre-0.8 paired-range schema, the derivation pass run before every put,  *)
(* and identifier resolution.                                              *)
(*                                                                         *)
(* Strings are TLA+ strings; None and the empty string are both written    *)
(* "" (the code only ever tests them for truthiness), an unset datetime is *)
(* 0, and an unset BooleanProperty is FALSE.                               *)
(***************************************************************************)
EXTENDS Integers, Sequences, FiniteSets, TLC

VARIABLES
  bug,       \* the in-memory Bug entity
  store,     \* the datastore: the persisted Bug entities, by key id
  call,      \* the last call made on the entity or the store, and its outcome
  events,    \* the list object handed to sorted_events (it is mutated in place)
  sortArgs,  \* the other arguments of that sorted_events call
  sorted,    \* what that sorted_events call returned
  vuln       \* the pre-0.8 Vulnerability payload at hand

vars == <<bug, store, call, events, sortArgs, sorted, vuln>>

(***************************************************************************)
(* Bounds of the model.                                                    *)
(***************************************************************************)
MaxEvents == 3      \* longest event list handed to sorted_events
MaxPairs == 2       \* most range pairs in a round-tripped payload
MaxTime == 2        \* utcnow() and payload timestamps range over 1..MaxTime
MaxStored == 2      \* most entities the datastore holds

(***************************************************************************)
(* Strings.                                                                *)
(***************************************************************************)
Digits == "0123456789"
UpperChars == "ABCDEFGHIJKLMNOPQRSTUVWXYZ"
LowerChars == "abcdefghijklmnopqrstuvwxyz"

CharAt(s, i) == SubSeq(s, i, i)
IndexIn(s, c) == IF \E i \in 1..Len(s) : CharAt(s, i) = c
                 THEN CHOOSE i \in 1..Len(s) : CharAt(s, i) = c
                 ELSE 0
IsDigit(c) == IndexIn(Digits, c) > 0

\* str.startswith
StartsWith(s, p) == Len(s) >= Len(p) /\ SubSeq(s, 1, Len(p)) = p
\* s[len(p):]
DropPrefix(s, p) == SubSeq(s, Len(p) + 1, Len(s))

LowerChar(c) == IF IndexIn(UpperChars, c) > 0
                THEN CharAt(LowerChars, IndexIn(UpperChars, c))
                ELSE c
RECURSIVE Lower(_)
Lower(s) == IF s = "" THEN "" ELSE LowerChar(Head(s)) \o Lower(Tail(s))

\* \w of the re module, on a lower-cased string
IsWordChar(c) == IndexIn(LowerChars, c) > 0 \/ IsDigit(c) \/ c = "_"

\* re.split(r'\W+', s), as the set of its pieces
RECURSIVE SplitNonWord(_, _, _)
SplitNonWord(s, cur, inSep) ==
  IF s = "" THEN {cur}
  ELSE IF IsWordChar(Head(s)) THEN SplitNonWord(Tail(s), cur \o Head(s), FALSE)
  ELSE IF inSep THEN SplitNonWord(Tail(s), cur, TRUE)
  ELSE {cur} \cup SplitNonWord(Tail(s), "", TRUE)

\* Bug._tokenize, as a set (its only use is search_indices.update)
TokenizeValue(value) ==
  IF value = "" THEN {}
  ELSE SplitNonWord(Lower(value), "", FALSE) \cup {Lower(value)}

\* _tokenize of the strings the entities below carry, computed once
TokenizedStrings ==
  {"GHSA-1234", "OSV-2021-1", "2021-1", "left-pad", "Left-Pad", "pad", "libx",
   "npm", "Unknown", "Go", "OSS-Fuzz"}
TokenizeTable == [v \in TokenizedStrings |-> TokenizeValue(v)]
Tokenize(value) ==
  IF value \in TokenizedStrings THEN TokenizeTable[value] ELSE TokenizeValue(value)

\* int() of a run of digits
RECURSIVE ParseNat(_, _)
ParseNat(s, acc) ==
  IF s = "" THEN acc
  ELSE ParseNat(Tail(s), 10 * acc + (IndexIn(Digits, Head(s)) - 1))

\* s.split('.'), as a sequence
RECURSIVE SplitDots(_, _)
SplitDots(s, cur) ==
  IF s = "" THEN <<cur>>
  ELSE IF Head(s) = "." THEN <<cur>> \o SplitDots(Tail(s), "")
  ELSE SplitDots(Tail(s), cur \o Head(s))

(***************************************************************************)
(* The collaborators that live outside models.py: semver_index,            *)
(* ecosystems, bug.normalize_tags, sources and the SourceRepository table. *)
(***************************************************************************)
\* semver: major.minor.patch, missing components coerced to 0
ParseSemver(v) ==
  LET p == SplitDots(v, "")
      part(i) == IF i <= Len(p) THEN ParseNat(p[i], 0) ELSE 0
  IN <<part(1), part(2), part(3)>>

\* the parse of the versions used below, computed once
ParsedVersions == {"0", "1.0.0", "1.5.0", "2.0.0", "3.0.0", "999999.999999.999999"}
SemverTable == [v \in ParsedVersions |-> ParseSemver(v)]
SemverParts(v) == IF v \in ParsedVersions THEN SemverTable[v] ELSE ParseSemver(v)

\* ecosystems.SemverEcosystem().sort_key
SemverSortKey(v) == SemverParts(v)

\* the order of two sort keys
KeyLess(a, b) ==
  \/ a[1] < b[1]
  \/ a[1] = b[1] /\ a[2] < b[2]
  \/ a[1] = b[1] /\ a[2] = b[2] /\ a[3] < b[3]

\* the ecosystems the registry knows (ecosystems.get)
KnownEcosystems == {"npm"}
EcosystemSortKey(ecosystem, v) == SemverParts(v)

\* semver_index.normalize: zero-padded components
PadComponent(n) ==
  LET RECURSIVE Show(_)
      Show(k) == IF k < 10 THEN CharAt(Digits, k + 1)
                 ELSE Show(k \div 10) \o CharAt(Digits, (k % 10) + 1)
      s == Show(n)
  IN SubSeq("00000000", 1, 8 - Len(s)) \o s
NormalizeSemver(v) ==
  LET p == SemverParts(v)
  IN PadComponent(p[1]) \o "." \o PadComponent(p[2]) \o "." \o PadComponent(p[3])
NormalizeTable == [v \in ParsedVersions |-> NormalizeSemver(v)]
SemverNormalize(v) ==
  IF v \in ParsedVersions THEN NormalizeTable[v] ELSE NormalizeSemver(v)

\* bug.normalize_tags
TagTable == [v \in {"V1.0", "1.0.0"} |-> Lower(v)]
NormalizeTag(v) == IF v \in DOMAIN TagTable THEN TagTable[v] ELSE Lower(v)
NormalizeTags(versions) == [i \in 1..Len(versions) |-> NormalizeTag(versions[i])]

\* sources.parse_source_id: '<source>:<id>' -> source
RECURSIVE UpToColon(_)
UpToColon(s) ==
  IF s = "" \/ Head(s) = ":" THEN "" ELSE Head(s) \o UpToColon(Tail(s))
ParseSourceId(source_id) == UpToColon(source_id)

\* the SourceRepository entities: name -> db_prefix
SourceRepositories ==
  { [name |-> "test", db_prefix |-> ""],
    [name |-> "oss-fuzz", db_prefix |-> "OSV-"] }
HasSourceRepository(name) == \E r \in SourceRepositories : r.name = name
GetSourceRepository(name) == CHOOSE r \in SourceRepositories : r.name = name

(***************************************************************************)
(* Events and sorted_events.                                               *)
(***************************************************************************)
Event(t, v) == [type |-> t, value |-> v]

\* the values that do not equal the magic '0', in order
RECURSIVE WithoutZero(_)
WithoutZero(evs) ==
  IF evs = <<>> THEN <<>>
  ELSE IF Head(evs).value = "0" THEN WithoutZero(Tail(evs))
  ELSE <<Head(evs)>> \o WithoutZero(Tail(evs))

\* zero_event after the removal loop: the last event of value '0', or <<>>
RECURSIVE ZeroEvent(_, _)
ZeroEvent(evs, found) ==
  IF evs = <<>> THEN found
  ELSE IF Head(evs).value = "0" THEN ZeroEvent(Tail(evs), <<Head(evs)>>)
  ELSE ZeroEvent(Tail(evs), found)

SortKeyOf(ecosystem, range_type, v) ==
  IF range_type = "SEMVER" THEN SemverSortKey(v) ELSE EcosystemSortKey(ecosystem, v)

\* sorted(events, key=...): a stable insertion sort
RECURSIVE InsertByKey(_, _, _, _)
InsertByKey(ecosystem, range_type, e, done) ==
  IF done = <<>> THEN <<e>>
  ELSE IF KeyLess(SortKeyOf(ecosystem, range_type, e.value),
                  SortKeyOf(ecosystem, range_type, Head(done).value))
       THEN <<e>> \o done
       ELSE <<Head(done)>> \o InsertByKey(ecosystem, range_type, e, Tail(done))

RECURSIVE SortByKey(_, _, _)
SortByKey(ecosystem, range_type, evs) ==
  IF evs = <<>> THEN <<>>
  ELSE InsertByKey(ecosystem, range_type, evs[Len(evs)],
                   SortByKey(ecosystem, range_type, SubSeq(evs, 1, Len(evs) - 1)))

\* sorted_events: the list returned, the caller's list afterwards, the error
sorted_events(ecosystem, range_type, evs) ==
  IF range_type = "GIT"
  THEN [returned |-> evs, events |-> evs, error |-> ""]
  ELSE IF range_type # "SEMVER" /\ ecosystem \notin KnownEcosystems
  THEN [returned |-> <<>>, events |-> evs, error |-> "UnknownEcosystem"]
  ELSE [returned |-> ZeroEvent(evs, <<>>)
                       \o SortByKey(ecosystem, range_type, WithoutZero(evs)),
        events |-> WithoutZero(evs),
        error |-> ""]

(***************************************************************************)
(* The entities.                                                           *)
(***************************************************************************)
Package(name, ecosystem, purl) ==
  [name |-> name, ecosystem |-> ecosystem, purl |-> purl]

AffectedRange2(type, repo_url, evs) ==
  [type |-> type, repo_url |-> repo_url, events |-> evs]

AffectedPackage(package, ranges, versions) ==
  [package |-> package, ranges |-> ranges, versions |-> versions]

\* Bug(...): the entity as constructed, every derived property at its default
NewBug(db_id, key, source_id, source) ==
  [db_id |-> db_id, key |-> key, source_id |-> source_id, source |-> source,
   last_modified |-> 0, affected_packages |-> <<>>,
   project |-> <<>>, ecosystem |-> <<>>, purl |-> <<>>,
   search_indices |-> {}, affected_fuzzy |-> <<>>,
   semver_fixed_indexes |-> <<>>, has_affected |-> FALSE, is_fixed |-> FALSE]

OSV_ID_PREFIX == "OSV-"
NOT_FIXED_SEMVER == "999999.999999.999999"

\* Bug.id, of an entity whose db_id or key is set
BugId(db_id, key) ==
  IF db_id # "" THEN db_id
  ELSE IF key # "" /\ IsDigit(Head(key)) THEN OSV_ID_PREFIX \o key
  ELSE key

(***************************************************************************)
(* update_from_vulnerability: the pre-0.8 payload into the entity.         *)
(***************************************************************************)
\* events_by_type.setdefault(key, []) followed by the two guarded appends
AppendNew(evs, e) ==
  IF \E i \in 1..Len(evs) : evs[i] = e THEN evs ELSE Append(evs, e)

PairEvents(evs, pair) ==
  LET withIntroduced ==
        AppendNew(evs, Event("introduced",
                             IF pair.introduced # "" THEN pair.introduced ELSE "0"))
  IN IF pair.fixed # ""
     THEN AppendNew(withIntroduced, Event("fixed", pair.fixed))
     ELSE withIntroduced

\* events_by_type, a dict in insertion order: a sequence of [key, events]
AddPair(groups, pair) ==
  LET k == <<pair.type, pair.repo>>
  IN IF \E i \in 1..Len(groups) : groups[i].key = k
     THEN [i \in 1..Len(groups) |->
             IF groups[i].key = k
             THEN [groups[i] EXCEPT !.events = PairEvents(@, pair)]
             ELSE groups[i]]
     ELSE Append(groups, [key |-> k, events |-> PairEvents(<<>>, pair)])

RECURSIVE EventsByType(_, _)
EventsByType(groups, pairs) ==
  IF pairs = <<>> THEN groups
  ELSE EventsByType(AddPair(groups, Head(pairs)), Tail(pairs))

\* the ranges the second loop appends, one per group
GroupRange(g) ==
  AffectedRange2(g.key[1],
                 IF g.key[1] = "GIT" /\ g.key[2] # "" THEN g.key[2] ELSE "",
                 g.events)

\* a merge that forgets to reset affected_package.ranges
MergedOntoOldRanges(old, pairs) ==
  LET groups == EventsByType(<<>>, pairs)
  IN old \o [i \in 1..Len(groups) |-> GroupRange(groups[i])]

\* affected_package.ranges after the call: reset to [], then one per group
MergedRanges(old, pairs) ==
  LET groups == EventsByType(<<>>, pairs)
  IN [i \in 1..Len(groups) |-> GroupRange(groups[i])]

\* last_modified after the call
UpdatedLastModified(b, vulnerability) ==
  IF vulnerability.modified # 0 THEN vulnerability.modified ELSE b.last_modified

update_from_vulnerability(b, vulnerability) ==
  LET old == IF b.affected_packages # <<>>
             THEN b.affected_packages[1]
             ELSE AffectedPackage(Package("", "", ""), <<>>, <<>>)
      new == AffectedPackage(
               Package(vulnerability.package.name,
                       vulnerability.package.ecosystem,
                       vulnerability.package.purl),
               MergedRanges(old.ranges, vulnerability.affects.ranges),
               vulnerability.affects.versions)
  IN [b EXCEPT
        !.last_modified = UpdatedLastModified(b, vulnerability),
        !.affected_packages =
           IF b.affected_packages # <<>>
           THEN [b.affected_packages EXCEPT ![1] = new]
           ELSE <<new>>]

(***************************************************************************)
(* _get_pre_0_8_affects and to_vulnerability: the entity into the pre-0.8  *)
(* payload.                                                                *)
(***************************************************************************)
LegacyRange(type, repo, introduced, fixed) ==
  [type |-> type, repo |-> repo, introduced |-> introduced, fixed |-> fixed]

\* one turn of the loop over the sorted events; st = [out, cur]
ExportEvent(st, r, e) ==
  LET fresh == LegacyRange(r.type, r.repo_url, "", "")
      \* the GIT branch: store the open pair and start a new one
      st1 == IF e.type = "introduced" /\ st.cur.introduced # "" /\ r.type = "GIT"
             THEN [out |-> Append(st.out, st.cur), cur |-> fresh]
             ELSE st
      st2 == IF e.type = "introduced" /\ st1.cur.introduced = ""
             THEN [st1 EXCEPT !.cur.introduced = IF e.value = "0" THEN "" ELSE e.value]
             ELSE st1
  IN IF e.type = "fixed"
     THEN [out |-> Append(st2.out, [st2.cur EXCEPT !.fixed = e.value]),
           cur |-> fresh]
     ELSE st2

RECURSIVE ExportEvents(_, _, _)
ExportEvents(st, r, evs) ==
  IF evs = <<>> THEN st
  ELSE ExportEvents(ExportEvent(st, r, Head(evs)), r, Tail(evs))

\* the pairs of one range, from its sorted events
RangePairs(r, sortedEvs) ==
  LET st == ExportEvents([out |-> <<>>, cur |-> LegacyRange(r.type, r.repo_url, "", "")],
                         r, sortedEvs)
  IN IF st.cur.introduced # "" THEN Append(st.out, st.cur) ELSE st.out

\* the loop over affected_package.ranges; acc = [ranges, out, error], where
\* ranges are the entity's ranges as sorted_events leaves them
RECURSIVE ExportRanges(_, _, _)
ExportRanges(ecosystem, todo, acc) ==
  IF todo = <<>> THEN acc
  ELSE LET r == Head(todo)
           s == sorted_events(ecosystem, r.type, r.events)
       IN IF s.error # ""
          THEN [ranges |-> acc.ranges \o todo, out |-> acc.out, error |-> s.error]
          ELSE ExportRanges(ecosystem, Tail(todo),
                 [ranges |-> Append(acc.ranges, [r EXCEPT !.events = s.events]),
                  out |-> acc.out \o RangePairs(r, s.returned),
                  error |-> ""])

\* _get_pre_0_8_affects: [ranges, out, error] for affected_packages[0]
get_pre_0_8_affects(b) ==
  ExportRanges(b.affected_packages[1].package.ecosystem,
               b.affected_packages[1].ranges,
               [ranges |-> <<>>, out |-> <<>>, error |-> ""])

\* to_vulnerability: the entity afterwards, the affects.ranges returned
to_vulnerability(b) ==
  IF b.affected_packages = <<>>
  THEN [bug |-> b, affects |-> <<>>, error |-> ""]
  ELSE LET a == get_pre_0_8_affects(b)
       IN [bug |-> [b EXCEPT !.affected_packages[1].ranges = a.ranges],
           affects |-> a.out,
           error |-> a.error]

(***************************************************************************)
(* _pre_put_hook: the derivation pass and the validation.                  *)
(***************************************************************************)
\* [x for x in seq if x]
RECURSIVE NonEmpty(_)
NonEmpty(seq) ==
  IF seq = <<>> THEN <<>>
  ELSE IF Head(seq) # "" THEN <<Head(seq)>> \o NonEmpty(Tail(seq))
  ELSE NonEmpty(Tail(seq))

PackageNames(pkgs) == NonEmpty([i \in 1..Len(pkgs) |-> pkgs[i].package.name])
PackageEcosystems(pkgs) == NonEmpty([i \in 1..Len(pkgs) |-> pkgs[i].package.ecosystem])
PackagePurls(pkgs) == NonEmpty([i \in 1..Len(pkgs) |-> pkgs[i].package.purl])

RECURSIVE TokenizeAll(_)
TokenizeAll(seq) ==
  IF seq = <<>> THEN {} ELSE Tokenize(Head(seq)) \cup TokenizeAll(Tail(seq))

\* sorted(list(search_indices)): a sorted list of distinct strings, kept as
\* the set it lists
SearchIndices(id, project, ecosystem, hasPackages) ==
  Tokenize(id) \cup
  (IF hasPackages THEN TokenizeAll(project) \cup TokenizeAll(ecosystem) ELSE {})

\* a loop that keeps the first fixed event's value
RECURSIVE FirstFixedVersion(_, _)
FirstFixedVersion(evs, fixed_version) ==
  IF evs = <<>> THEN fixed_version
  ELSE FirstFixedVersion(Tail(evs),
                         IF Head(evs).type = "fixed" /\ fixed_version = ""
                         THEN Head(evs).value ELSE fixed_version)

\* fixed_version after the loop over one range's events (None is "")
RECURSIVE FixedVersion(_, _)
FixedVersion(evs, fixed_version) ==
  IF evs = <<>> THEN fixed_version
  ELSE FixedVersion(Tail(evs),
                    IF Head(evs).type = "fixed" THEN Head(evs).value ELSE fixed_version)

\* whether the loop over one range's events sets is_fixed
RECURSIVE AnyFixed(_)
AnyFixed(evs) ==
  IF evs = <<>> THEN FALSE ELSE Head(evs).type = "fixed" \/ AnyFixed(Tail(evs))

\* the entry one range appends to semver_fixed_indexes, if any
RangeSemverIndex(r) ==
  IF r.type = "SEMVER"
  THEN LET fixed_version == FixedVersion(r.events, "")
       IN <<SemverNormalize(IF fixed_version # "" THEN fixed_version
                            ELSE NOT_FIXED_SEMVER)>>
  ELSE <<>>

\* the loop over one package's ranges; d = [semver_fixed_indexes, has_affected, is_fixed]
RECURSIVE DeriveRanges(_, _)
DeriveRanges(ranges, d) ==
  IF ranges = <<>> THEN d
  ELSE LET r == Head(ranges)
       IN DeriveRanges(Tail(ranges),
            [semver_fixed_indexes |-> d.semver_fixed_indexes \o RangeSemverIndex(r),
             has_affected |-> d.has_affected \/ r.type \in {"SEMVER", "ECOSYSTEM"},
             is_fixed |-> d.is_fixed \/ AnyFixed(r.events),
             affected_fuzzy |-> d.affected_fuzzy])

\* the loop over affected_packages
RECURSIVE DerivePackages(_, _)
DerivePackages(pkgs, d) ==
  IF pkgs = <<>> THEN d
  ELSE LET pkg == Head(pkgs)
           d1 == [d EXCEPT !.affected_fuzzy = @ \o NormalizeTags(pkg.versions),
                           !.has_affected = @ \/ pkg.versions # <<>>]
       IN DerivePackages(Tail(pkgs), DeriveRanges(pkg.ranges, d1))

\* a derivation that accumulates onto the flags the entity had
DerivedOntoOldFlags(old, pkgs) ==
  DerivePackages(pkgs, [affected_fuzzy |-> <<>>, semver_fixed_indexes |-> <<>>,
                        has_affected |-> old.has_affected, is_fixed |-> old.is_fixed])

\* the four properties the hook resets and then accumulates
DerivedFromPackages(old, pkgs) ==
  DerivePackages(pkgs, [affected_fuzzy |-> <<>>, semver_fixed_indexes |-> <<>>,
                        has_affected |-> FALSE, is_fixed |-> FALSE])

\* a hook that stamps the entity on every put
AlwaysNow(last_modified, now) == now

\* last_modified after the hook
HookLastModified(last_modified, now) ==
  IF last_modified = 0 THEN now ELSE last_modified

\* the key id the hook gives an entity that has none
NewKeyId(source, db_id) ==
  LET source_repo == GetSourceRepository(source)
  IN IF source_repo.db_prefix # "" /\ StartsWith(db_id, source_repo.db_prefix)
     THEN db_id
     ELSE source \o ":" \o db_id

\* the entity once the derivation part of the hook has run
Derive(b, now) ==
  LET hasPackages == b.affected_packages # <<>>
      project == IF hasPackages THEN PackageNames(b.affected_packages) ELSE b.project
      ecosystem == IF hasPackages THEN PackageEcosystems(b.affected_packages)
                   ELSE b.ecosystem
      purl == IF hasPackages THEN PackagePurls(b.affected_packages) ELSE b.purl
      d == DerivedFromPackages(
             [affected_fuzzy |-> b.affected_fuzzy,
              semver_fixed_indexes |-> b.semver_fixed_indexes,
              has_affected |-> b.has_affected, is_fixed |-> b.is_fixed],
             b.affected_packages)
  IN [b EXCEPT
        !.project = project, !.ecosystem = ecosystem, !.purl = purl,
        !.search_indices = SearchIndices(BugId(b.db_id, b.key), project, ecosystem,
                                         hasPackages),
        !.affected_fuzzy = d.affected_fuzzy,
        !.semver_fixed_indexes = d.semver_fixed_indexes,
        !.has_affected = d.has_affected,
        !.is_fixed = d.is_fixed,
        !.last_modified = HookLastModified(b.last_modified, now),
        !.source = IF b.source_id # "" THEN ParseSourceId(b.source_id) ELSE b.source]

\* _pre_put_hook: the entity afterwards and the exception raised ("" for none)
pre_put_hook(b, now) ==
  IF b.db_id = "" /\ b.key = ""
  THEN \* self.id() reads self.key.id() of a key that is None
       [bug |-> b, error |-> "AttributeError"]
  ELSE LET d == Derive(b, now)
       IN IF d.source = "" THEN [bug |-> d, error |-> "Source not specified for Bug."]
          ELSE IF d.db_id = "" THEN [bug |-> d, error |-> "DB ID not specified for Bug."]
          ELSE IF d.key # "" THEN [bug |-> d, error |-> ""]
          ELSE IF ~HasSourceRepository(d.source)
          THEN [bug |-> d, error |-> "Invalid source"]
          ELSE [bug |-> [d EXCEPT !.key = NewKeyId(d.source, d.db_id)], error |-> ""]

\* the properties of the entity that the hook populates
DerivedFields(b) ==
  [search_indices |-> b.search_indices, affected_fuzzy |-> b.affected_fuzzy,
   semver_fixed_indexes |-> b.semver_fixed_indexes,
   has_affected |-> b.has_affected, is_fixed |-> b.is_fixed,
   last_modified |-> b.last_modified, key |-> b.key,
   project |-> b.project, ecosystem |-> b.ecosystem, purl |-> b.purl]

(***************************************************************************)
(* The datastore and Bug.get_by_id.                                        *)
(***************************************************************************)
\* what the datastore keeps of an entity here: the properties the queries read
Stored(b) == [key |-> b.key, db_id |-> b.db_id, source |-> b.source]

\* put(): the entity replaces whatever the datastore held under its key
PutEntity(st, b) == {e \in st : e.key # b.key} \cup {Stored(b)}

\* cls.query(cls.db_id == vuln_id): the entities the query matches
QueryByDbId(st, vuln_id) == {e \in st : e.db_id # "" /\ e.db_id = vuln_id}

\* the key id the fallback looks up
FallbackKeyId(vuln_id) ==
  IF StartsWith(vuln_id, OSV_ID_PREFIX) THEN DropPrefix(vuln_id, OSV_ID_PREFIX)
  ELSE vuln_id

\* super().get_by_id: the entities stored under that key id (none or one)
GetByKey(st, key_id) == {e \in st : e.key = key_id}

\* Bug.get_by_id: the entities it may return (none: it returns None)
get_by_id(st, vuln_id) ==
  IF QueryByDbId(st, vuln_id) # {} THEN QueryByDbId(st, vuln_id)
  ELSE GetByKey(st, FallbackKeyId(vuln_id))

(***************************************************************************)
(* The inputs.                                                             *)
(***************************************************************************)
BoundedSeqs(S, n) == UNION {[1..k -> S] : k \in 0..n}

Times == 1..MaxTime

RangeTypes == {"GIT", "SEMVER", "ECOSYSTEM"}
EventTypes == {"introduced", "fixed", "limit"}

\* the events handed to sorted_events directly
SortValues == {"0", "1.0.0", "1.5.0", "2.0.0"}
SortEvents == {Event(t, v) : t \in EventTypes, v \in SortValues}
SortEcosystems == {"npm", "Unknown"}

\* the range pairs of a payload: commits for GIT, versions otherwise
IntroducedValues(type) == IF type = "GIT" THEN {"", "a", "c"} ELSE {"", "1.0.0", "2.0.0"}
FixedValues(type) == IF type = "GIT" THEN {"", "b"} ELSE {"", "1.5.0"}
PairKinds == {<<"GIT", "https://r">>, <<"SEMVER", "">>, <<"SEMVER", "https://r">>,
              <<"ECOSYSTEM", "">>}
Pairs == UNION {{LegacyRange(k[1], k[2], i, f) :
                   i \in IntroducedValues(k[1]), f \in FixedValues(k[1])} : k \in PairKinds}

Vulnerability(package, versions, ranges, modified) ==
  [package |-> package, affects |-> [versions |-> versions, ranges |-> ranges],
   modified |-> modified]

\* package, versions of the payloads that are converted
PayloadShells ==
  { <<Package("left-pad", "npm", "pkg:npm/left-pad"), <<>>>>,
    <<Package("Left-Pad", "Unknown", ""), <<"V1.0">>>> }
ConvertedVulns ==
  {Vulnerability(s[1], s[2], r, 0) : s \in PayloadShells, r \in BoundedSeqs(Pairs, MaxPairs)}

\* the range pairs of the payloads whose derived properties are examined
DerivedPairs ==
  {LegacyRange(k[1], k[2], IF k[1] = "GIT" THEN "a" ELSE "1.0.0", f) :
     k \in PairKinds \ {<<"SEMVER", "https://r">>}, f \in {"", "1.5.0", "2.0.0"}}
DerivedVulns ==
  {Vulnerability(s[1], s[2], r, 0) :
     s \in PayloadShells, r \in BoundedSeqs(DerivedPairs, MaxPairs)}

\* affected packages of entities that were built directly
PadPackage ==
  AffectedPackage(Package("pad", "npm", ""),
    <<AffectedRange2("SEMVER", "",
        <<Event("introduced", "0"), Event("fixed", "2.0.0"), Event("limit", "3.0.0")>>)>>,
    <<"1.0.0">>)
LibxPackage ==
  AffectedPackage(Package("libx", "OSS-Fuzz", "pkg:generic/libx"),
    <<AffectedRange2("GIT", "https://x", <<Event("introduced", "a"), Event("fixed", "b")>>),
      AffectedRange2("SEMVER", "", <<Event("introduced", "1.0.0")>>)>>,
    <<>>)
ConvertedBugs ==
  {[NewBug("GHSA-1234", "", "", "test") EXCEPT !.affected_packages = pkgs] :
     pkgs \in {<<>>, <<PadPackage>>, <<PadPackage, LibxPackage>>}}

\* the payloads of the persistence lifecycle
ReceivedVulns ==
  { Vulnerability(Package("left-pad", "npm", ""), <<>>, <<>>, 0),
    Vulnerability(Package("left-pad", "npm", ""), <<"V1.0">>,
                  <<LegacyRange("SEMVER", "", "1.0.0", "2.0.0")>>, 1),
    Vulnerability(Package("Left-Pad", "Go", "pkg:golang/left-pad"), <<>>,
                  <<LegacyRange("GIT", "https://r", "a", "")>>, 0) }

\* the entities constructed: <<db_id, key id, source_id, source>>
SourceSettings == {<<"", "">>, <<"", "test">>, <<"", "bogus">>, <<"oss-fuzz:123", "">>}
Identities ==
  {<<d, k, s[1], s[2]>> : d \in {"", "GHSA-1234"}, k \in {"", "2021-1"}, s \in SourceSettings}
StoredIdentities ==
  {<<d, k, s[1], s[2]>> : d \in {"", "GHSA-1234", "OSV-2021-1"}, k \in {"", "2021-1"},
                          s \in {<<"", "test">>, <<"oss-fuzz:123", "">>}}
QueryIds == {"GHSA-1234", "test:GHSA-1234", "OSV-test:GHSA-1234", "OSV-2021-1", "2021-1",
             "CVE-0"}

\* the datastore to begin with: one entity under a bare numeric key, no db_id
LegacyStore == {[key |-> "2021-1", db_id |-> "", source |-> "oss-fuzz"]}

(***************************************************************************)
(* The state machine.                                                      *)
(***************************************************************************)
NoCall ==
  [op |-> "", error |-> "", affects |-> <<>>, vuln_id |-> "", returned |-> {},
   was_affected |-> FALSE, was_fixed |-> FALSE, again |-> FALSE]
NoVuln == Vulnerability(Package("", "", ""), <<>>, <<>>, 0)
NoSort == [ecosystem |-> "", range_type |-> "GIT", input |-> <<>>, called |-> FALSE,
           error |-> ""]

Init ==
  /\ bug = NewBug("", "", "", "")
  /\ store = LegacyStore
  /\ call = NoCall
  /\ vuln = NoVuln
  /\ events = <<>>
  /\ sortArgs = NoSort
  /\ sorted = <<>>

InitStore == Init

InitConvert ==
  /\ bug \in ConvertedBugs
  /\ vuln \in ConvertedVulns
  /\ store = LegacyStore
  /\ call = NoCall
  /\ events = <<>>
  /\ sortArgs = NoSort
  /\ sorted = <<>>

InitDerive ==
  /\ bug \in ConvertedBugs
  /\ vuln \in DerivedVulns
  /\ store = LegacyStore
  /\ call = NoCall
  /\ events = <<>>
  /\ sortArgs = NoSort
  /\ sorted = <<>>

InitSort ==
  /\ events \in BoundedSeqs(SortEvents, MaxEvents)
  /\ \E eco \in SortEcosystems, t \in RangeTypes :
       sortArgs = [ecosystem |-> eco, range_type |-> t, input |-> events,
                   called |-> FALSE, error |-> ""]
  /\ sorted = <<>>
  /\ bug = NewBug("", "", "", "")
  /\ store = LegacyStore
  /\ call = NoCall
  /\ vuln = NoVuln

\* Bug(db_id=..., id=..., source_id=..., source=...)
Construct(ids) ==
  \E i \in ids :
    /\ bug' = NewBug(i[1], i[2], i[3], i[4])
    /\ call' = [NoCall EXCEPT !.op = "Bug"]
    /\ UNCHANGED <<store, vuln, events, sortArgs, sorted>>

\* bug.update_from_vulnerability(vulnerability)
UpdateFromVulnerability(vulns) ==
  \E v \in vulns :
    /\ vuln' = v
    /\ bug' = update_from_vulnerability(bug, v)
    /\ call' = [NoCall EXCEPT !.op = "update_from_vulnerability"]
    /\ UNCHANGED <<store, events, sortArgs, sorted>>

\* bug.to_vulnerability()
ToVulnerability ==
  LET r == to_vulnerability(bug)
  IN /\ bug' = r.bug
     /\ call' = [NoCall EXCEPT !.op = "to_vulnerability", !.error = r.error,
                               !.affects = IF r.error = "" THEN r.affects ELSE <<>>]
     /\ UNCHANGED <<store, vuln, events, sortArgs, sorted>>

\* bug.put(): _pre_put_hook, then the write unless the hook raised
Put ==
  \E now \in Times :
    LET r == pre_put_hook(bug, now)
    IN /\ r.error = "" => Cardinality(PutEntity(store, r.bug)) <= MaxStored
       /\ bug' = r.bug
       /\ store' = IF r.error = "" THEN PutEntity(store, r.bug) ELSE store
       /\ call' = [NoCall EXCEPT !.op = "put", !.error = r.error,
                                 !.was_affected = bug.has_affected,
                                 !.was_fixed = bug.is_fixed,
                                 !.again = (call.op = "put")]
       /\ UNCHANGED <<vuln, events, sortArgs, sorted>>

\* Bug.get_by_id(vuln_id)
GetById ==
  \E q \in QueryIds :
    /\ \/ /\ get_by_id(store, q) = {}
          /\ call' = [NoCall EXCEPT !.op = "get_by_id", !.vuln_id = q]
       \/ \E e \in get_by_id(store, q) :
            call' = [NoCall EXCEPT !.op = "get_by_id", !.vuln_id = q, !.returned = {e}]
    /\ UNCHANGED <<bug, store, vuln, events, sortArgs, sorted>>

\* sorted_events(ecosystem, range_type, events)
SortedEvents ==
  LET r == sorted_events(sortArgs.ecosystem, sortArgs.range_type, events)
  IN /\ events' = r.events
     /\ sorted' = r.returned
     /\ sortArgs' = [sortArgs EXCEPT !.input = events, !.called = TRUE, !.error = r.error]
     /\ UNCHANGED <<bug, store, call, vuln>>

\* the persistence lifecycle of one entity
Next ==
  \/ Construct(Identities)
  \/ UpdateFromVulnerability(ReceivedVulns)
  \/ Put

Spec == Init /\ [][Next]_vars

\* the datastore and its lookups
NextStore ==
  \/ Construct(StoredIdentities)
  \/ Put
  \/ GetById

SpecStore == InitStore /\ [][NextStore]_vars

\* conversion of one payload, there and back
NextConvert ==
  \/ UpdateFromVulnerability({vuln})
  \/ ToVulnerability

SpecConvert == InitConvert /\ [][NextConvert]_vars

\* derivation from what one payload gives
NextDerive ==
  \/ UpdateFromVulnerability({vuln})
  \/ Put

SpecDerive == InitDerive /\ [][NextDerive]_vars

\* sorted_events on its own
NextSort == SortedEvents

SpecSort == InitSort /\ [][NextSort]_vars

(***************************************************************************)
(* Helpers of the properties.                                              *)
(***************************************************************************)
Count(seq, x) == Cardinality({i \in 1..Len(seq) : seq[i] = x})
Range(seq) == {seq[i] : i \in 1..Len(seq)}
\* the two sequences list the same elements the same number of times
SameBag(a, b) ==
  /\ Len(a) = Len(b)
  /\ \A x \in Range(a) \cup Range(b) : Count(a, x) = Count(b, x)
NoDuplicates(seq) == \A i, j \in 1..Len(seq) : seq[i] = seq[j] => i = j

(***************************************************************************)
(* C2: sorted_events of a non-GIT range returns exactly the events it was  *)
(* given, the event of value "0" first when there is one and the others in *)
(* ascending order of sort_key; of a GIT range it returns the events in    *)
(* their input order; and SEMVER [fixed 2.0.0, introduced 0, introduced    *)
(* 1.5.0] sorts to [introduced 0, introduced 1.5.0, fixed 2.0.0].  Stated  *)
(* of input lists that hold no two equal events.                           *)
(***************************************************************************)
C2_SortedEventsKeepsAndOrders ==
  (sortArgs.called /\ sortArgs.error = "" /\ NoDuplicates(sortArgs.input)) =>
    IF sortArgs.range_type = "GIT"
    THEN sorted = sortArgs.input
    ELSE /\ SameBag(sorted, sortArgs.input)
         /\ (\E i \in 1..Len(sortArgs.input) : sortArgs.input[i].value = "0")
              => sorted[1].value = "0"
         /\ \A i, j \in 1..Len(sorted) :
              (i < j /\ sorted[i].value # "0" /\ sorted[j].value # "0")
                => ~KeyLess(SortKeyOf(sortArgs.ecosystem, sortArgs.range_type,
                                      sorted[j].value),
                            SortKeyOf(sortArgs.ecosystem, sortArgs.range_type,
                                      sorted[i].value))
         /\ (sortArgs.range_type = "SEMVER" /\
             sortArgs.input = <<Event("fixed", "2.0.0"), Event("introduced", "0"),
                                Event("introduced", "1.5.0")>>)
              => sorted = <<Event("introduced", "0"), Event("introduced", "1.5.0"),
                            Event("fixed", "2.0.0")>>

(***************************************************************************)
(* C1: round trip.  Populating an empty record from a list of range pairs  *)
(* with update_from_vulnerability and exporting it with                    *)
(* _get_pre_0_8_affects gives back the same pairs, as a multiset (an empty *)
(* introduced bound standing for "0").  Stated of the lists the claim is   *)
(* about: GIT and SEMVER pairs, no pair twice, no bound shared by two      *)
(* pairs of a group, a repository on GIT pairs only, and SEMVER pairs that *)
(* do not overlap.                                                         *)
(***************************************************************************)
\* the least sort key stands for the empty introduced bound
BoundKey(v) == IF v = "" THEN SemverParts("0") ELSE SemverParts(v)
\* [p.introduced, p.fixed) lies wholly below q
Below(p, q) ==
  /\ p.fixed # ""
  /\ q.introduced # ""
  /\ ~KeyLess(BoundKey(q.introduced), BoundKey(p.fixed))
WellFormedPairs(pairs) ==
  /\ NoDuplicates(pairs)
  /\ \A i \in 1..Len(pairs) :
       /\ pairs[i].type \in {"GIT", "SEMVER"}
       /\ pairs[i].type # "GIT" => pairs[i].repo = ""
       /\ (pairs[i].type = "SEMVER" /\ pairs[i].fixed # "")
            => KeyLess(BoundKey(pairs[i].introduced), BoundKey(pairs[i].fixed))
  /\ \A i, j \in 1..Len(pairs) :
       (i # j /\ pairs[i].type = pairs[j].type /\ pairs[i].repo = pairs[j].repo) =>
         /\ pairs[i].introduced # pairs[j].introduced
         /\ pairs[i].fixed = "" \/ pairs[i].fixed # pairs[j].fixed
         /\ pairs[i].type = "SEMVER"
              => Below(pairs[i], pairs[j]) \/ Below(pairs[j], pairs[i])

\* the entity as just populated from the payload, with no package before
PopulatedFromEmpty ==
  bug = update_from_vulnerability([bug EXCEPT !.affected_packages = <<>>], vuln)

C1_RoundTrip ==
  [][(/\ PopulatedFromEmpty
      /\ WellFormedPairs(vuln.affects.ranges)
      /\ call'.op = "to_vulnerability"
      /\ call'.error = "")
       => SameBag(call'.affects, vuln.affects.ranges)]_vars

(***************************************************************************)
(* C3: GIT overlap handling.  Every introduced event of a GIT range is the *)
(* introduced bound of an exported pair of that range, one with an empty   *)
(* fixed bound when no fixed event follows it; and the range merged from   *)
(* the pairs (a, b) and (c, "") exports as (a, b) and (c, "").             *)
(***************************************************************************)
LegacyBound(v) == IF v = "0" THEN "" ELSE v
ExportedFrom(r, e, unfixed) ==
  \E k \in 1..Len(call.affects) :
    /\ call.affects[k].type = "GIT"
    /\ call.affects[k].repo = r.repo_url
    /\ call.affects[k].introduced = LegacyBound(e.value)
    /\ unfixed => call.affects[k].fixed = ""

C3_GitIntroducedExported ==
  (call.op = "to_vulnerability" /\ call.error = "" /\ bug.affected_packages # <<>>) =>
    LET ranges == bug.affected_packages[1].ranges
    IN /\ \A n \in 1..Len(ranges) :
            ranges[n].type = "GIT" =>
              \A i \in 1..Len(ranges[n].events) :
                ranges[n].events[i].type = "introduced" =>
                  ExportedFrom(ranges[n], ranges[n].events[i],
                               \A j \in (i + 1)..Len(ranges[n].events) :
                                 ranges[n].events[j].type # "fixed")
       /\ ranges = <<AffectedRange2("GIT", "https://r",
                       <<Event("introduced", "a"), Event("fixed", "b"),
                         Event("introduced", "c")>>)>>
            => call.affects = <<LegacyRange("GIT", "https://r", "a", "b"),
                                LegacyRange("GIT", "https://r", "c", "")>>

(***************************************************************************)
(* C4: idempotent derivation.  A _pre_put_hook that runs directly after    *)
(* another one on the same entity leaves every derived property            *)
(* (search_indices, affected_fuzzy, semver_fixed_indexes, has_affected,    *)
(* is_fixed, last_modified, key, project, ecosystem, purl) as the first    *)
(* run left it.                                                            *)
(***************************************************************************)
C4_IdempotentDerivation ==
  [][(call.op = "put" /\ call'.op = "put") =>
       DerivedFields(bug') = DerivedFields(bug)]_vars

\* a second successful run on an entity with packages, indexes and a timestamp
C4_Witness ==
  /\ call.op = "put"
  /\ call.again
  /\ call.error = ""
  /\ bug.affected_packages # <<>>
  /\ bug.semver_fixed_indexes # <<>>
  /\ bug.search_indices # {}
  /\ bug.last_modified # 0

(***************************************************************************)
(* C5: no partial derivation state.  When _pre_put_hook is rejected with a *)
(* validation error (source unset, identifier unset, unknown source) no    *)
(* derived property of the entity differs from its value before the call,  *)
(* and the datastore is as it was.                                         *)
(***************************************************************************)
ValidationErrors ==
  {"Source not specified for Bug.", "DB ID not specified for Bug.", "Invalid source"}

C5_NoPartialDerivation ==
  [][(call'.op = "put" /\ call'.error \in ValidationErrors) =>
       (DerivedFields(bug') = DerivedFields(bug) /\ store' = store)]_vars

(***************************************************************************)
(* C6: validation at persistence.  _pre_put_hook on an entity without      *)
(* source provenance (source_id and source unset) fails with 'Source not   *)
(* specified', whether or not it has an identifier; with provenance and    *)
(* without db_id it fails with 'DB ID not specified'; it succeeds only     *)
(* when both are non-empty, and what it writes has both.                   *)
(***************************************************************************)
C6_ValidationAtPersistence ==
  call.op = "put" =>
    /\ (bug.source_id = "" /\ bug.source = "") =>
         call.error = "Source not specified for Bug."
    /\ ((bug.source_id # "" \/ bug.source # "") /\ bug.db_id = "") =>
         call.error = "DB ID not specified for Bug."
    /\ call.error = "" =>
         /\ bug.source # ""
         /\ bug.db_id # ""
         /\ Stored(bug) \in store

(***************************************************************************)
(* C7: identifier resolution.  get_by_id(q) returns an entity whose db_id  *)
(* is q when there is one; otherwise what is stored under q as a raw key,  *)
(* the 'OSV-' prefix stripped; every entity r it returns has r.id() = q.   *)
(***************************************************************************)
C7_NeverTheWrongRecord ==
  call.op = "get_by_id" =>
    /\ QueryByDbId(store, call.vuln_id) # {} =>
         (call.returned # {} /\ call.returned \subseteq QueryByDbId(store, call.vuln_id))
    /\ QueryByDbId(store, call.vuln_id) = {} =>
         call.returned = GetByKey(store, FallbackKeyId(call.vuln_id))
    /\ \A r \in call.returned : BugId(r.db_id, r.key) = call.vuln_id

(***************************************************************************)
(* C8: merge replaces and deduplicates.  After update_from_vulnerability   *)
(* the ranges of affected package 0 are those of the payload alone: one    *)
(* range per (type, repository) group of its pairs, in the order the       *)
(* groups were first seen, holding the group's events without duplicates,  *)
(* repo_url set on GIT ranges only; the other affected packages are as     *)
(* they were.                                                              *)
(***************************************************************************)
GroupKey(pair) == <<pair.type, pair.repo>>
GroupKeys(pairs) == {GroupKey(pairs[i]) : i \in 1..Len(pairs)}
FirstSeen(pairs, k) ==
  CHOOSE i \in 1..Len(pairs) :
    GroupKey(pairs[i]) = k /\ \A j \in 1..(i - 1) : GroupKey(pairs[j]) # k
GroupEventSet(pairs, k) ==
  LET group == {pairs[i] : i \in {j \in 1..Len(pairs) : GroupKey(pairs[j]) = k}}
  IN {Event("introduced", IF p.introduced = "" THEN "0" ELSE p.introduced) : p \in group}
     \cup {Event("fixed", p.fixed) : p \in {q \in group : q.fixed # ""}}
BuiltFrom(ranges, pairs) ==
  /\ Len(ranges) = Cardinality(GroupKeys(pairs))
  /\ \A n \in 1..Len(ranges) :
       /\ \E k \in GroupKeys(pairs) :
            /\ Cardinality({k2 \in GroupKeys(pairs) :
                              FirstSeen(pairs, k2) < FirstSeen(pairs, k)}) = n - 1
            /\ ranges[n].type = k[1]
            /\ ranges[n].repo_url = (IF k[1] = "GIT" THEN k[2] ELSE "")
            /\ Range(ranges[n].events) = GroupEventSet(pairs, k)
       /\ NoDuplicates(ranges[n].events)
       /\ ranges[n].repo_url # "" => ranges[n].type = "GIT"

C8_MergeReplaces ==
  [][call'.op = "update_from_vulnerability" =>
       /\ bug'.affected_packages # <<>>
       /\ BuiltFrom(bug'.affected_packages[1].ranges, vuln'.affects.ranges)
       /\ Len(bug'.affected_packages) =
            (IF bug.affected_packages = <<>> THEN 1 ELSE Len(bug.affected_packages))
       /\ \A n \in 2..Len(bug.affected_packages) :
            bug'.affected_packages[n] = bug.affected_packages[n]]_vars

\* a payload of two groups has replaced the ranges of package 0, beside package 1
C8_Witness ==
  /\ call.op = "update_from_vulnerability"
  /\ Len(bug.affected_packages) = 2
  /\ bug.affected_packages[2] = LibxPackage
  /\ vuln.affects.ranges = <<LegacyRange("SEMVER", "https://r", "1.0.0", "1.5.0"),
                             LegacyRange("GIT", "https://r", "a", "b")>>
  /\ Len(bug.affected_packages[1].ranges) = 2
  /\ bug.affected_packages[1].ranges[1].type = "SEMVER"

(***************************************************************************)
(* C9: derived flags.  After a _pre_put_hook that succeeds, has_affected   *)
(* is true exactly when some affected package lists a version or has a     *)
(* SEMVER or ECOSYSTEM range, and is_fixed exactly when some range of some *)
(* affected package holds a fixed event, whatever the flags were before.   *)
(***************************************************************************)
C9_DerivedFlags ==
  (call.op = "put" /\ call.error = "") =>
    /\ bug.has_affected =
         (\E n \in 1..Len(bug.affected_packages) :
            \/ bug.affected_packages[n].versions # <<>>
            \/ \E r \in Range(bug.affected_packages[n].ranges) :
                 r.type \in {"SEMVER", "ECOSYSTEM"})
    /\ bug.is_fixed =
         (\E n \in 1..Len(bug.affected_packages) :
            \E r \in Range(bug.affected_packages[n].ranges) :
              \E e \in Range(r.events) : e.type = "fixed")

\* a put has cleared an is_fixed that the data no longer supports
C9_Witness ==
  /\ call.op = "put"
  /\ call.error = ""
  /\ call.was_fixed
  /\ ~bug.is_fixed
  /\ bug.has_affected

(***************************************************************************)
(* C10: after a _pre_put_hook that succeeds, semver_fixed_indexes holds    *)
(* one entry per SEMVER range and none for the others, in the order of the *)
(* packages and of their ranges: the normalized value of the range's last  *)
(* fixed event in stored order, or the normalized 999999.999999.999999     *)
(* when the range has no fixed event.                                      *)
(***************************************************************************)
RECURSIVE AllRanges(_)
AllRanges(pkgs) ==
  IF pkgs = <<>> THEN <<>> ELSE Head(pkgs).ranges \o AllRanges(Tail(pkgs))
IsSemverRange(r) == r.type = "SEMVER"
LastFixedOrSentinel(r) ==
  LET fixedAt == {i \in 1..Len(r.events) : r.events[i].type = "fixed"}
  IN IF fixedAt = {} THEN NOT_FIXED_SEMVER
     ELSE r.events[CHOOSE i \in fixedAt : \A j \in fixedAt : j <= i].value

C10_SemverFixedIndexes ==
  (call.op = "put" /\ call.error = "") =>
    LET semver == SelectSeq(AllRanges(bug.affected_packages), IsSemverRange)
    IN /\ Len(bug.semver_fixed_indexes) = Len(semver)
       /\ \A n \in 1..Len(semver) :
            bug.semver_fixed_indexes[n] = SemverNormalize(LastFixedOrSentinel(semver[n]))

\* a range whose last fixed event is not its greatest, a GIT range, an unfixed range
C10_Witness ==
  /\ call.op = "put"
  /\ call.error = ""
  /\ Len(AllRanges(bug.affected_packages)) = 3
  /\ bug.affected_packages[1].ranges[1].events =
       <<Event("introduced", "1.0.0"), Event("fixed", "2.0.0"), Event("fixed", "1.5.0")>>
  /\ bug.semver_fixed_indexes =
       <<"00000001.00000005.00000000", "00999999.00999999.00999999">>

(***************************************************************************)
(* C11: on export of a SEMVER or ECOSYSTEM range, the introduced bound of  *)
(* each pair is the first introduced event, in sorted order, since the     *)
(* previous fixed event, the sentinel "0" exported as empty: an introduced *)
(* event met while a pair is open, also one opened by "0", does not change *)
(* that pair.  Stated of the exported pairs that have a bound.             *)
(***************************************************************************)
RECURSIVE FirstIntroducedPairs(_, _, _, _)
FirstIntroducedPairs(r, evs, open, introduced) ==
  IF evs = <<>>
  THEN IF open THEN <<LegacyRange(r.type, r.repo_url, introduced, "")>> ELSE <<>>
  ELSE IF Head(evs).type = "introduced"
  THEN FirstIntroducedPairs(r, Tail(evs), TRUE,
                            IF open THEN introduced ELSE LegacyBound(Head(evs).value))
  ELSE IF Head(evs).type = "fixed"
  THEN <<LegacyRange(r.type, r.repo_url, introduced, Head(evs).value)>>
       \o FirstIntroducedPairs(r, Tail(evs), FALSE, "")
  ELSE FirstIntroducedPairs(r, Tail(evs), open, introduced)

RECURSIVE NonGitPairs(_, _)
NonGitPairs(ecosystem, ranges) ==
  IF ranges = <<>> THEN <<>>
  ELSE (IF Head(ranges).type = "GIT" THEN <<>>
        ELSE FirstIntroducedPairs(
               Head(ranges),
               sorted_events(ecosystem, Head(ranges).type, Head(ranges).events).returned,
               FALSE, ""))
       \o NonGitPairs(ecosystem, Tail(ranges))

IsNotGit(pair) == pair.type # "GIT"
HasBound(pair) == pair.introduced # "" \/ pair.fixed # ""

C11_FirstIntroducedOpensThePair ==
  [][(call'.op = "to_vulnerability" /\ call'.error = "" /\ bug.affected_packages # <<>>) =>
       SelectSeq(SelectSeq(call'.affects, IsNotGit), HasBound) =
         SelectSeq(NonGitPairs(bug.affected_packages[1].package.ecosystem,
                               bug.affected_packages[1].ranges), HasBound)]_vars

(***************************************************************************)
(* C12: export is pure.  to_vulnerability leaves the entity as it was:     *)
(* every range of every affected package holds the same events in the same *)
(* order afterwards, and the properties _pre_put_hook derives from the     *)
(* entity after the export are those it derives from it before.            *)
(***************************************************************************)
C12_ExportIsPure ==
  [][call'.op = "to_vulnerability" =>
       /\ bug'.affected_packages = bug.affected_packages
       /\ \A now \in Times :
            DerivedFields(pre_put_hook(bug', now).bug) =
              DerivedFields(pre_put_hook(bug, now).bug)]_vars

====
